---- MODULE Spec2Model ----
(***************************************************************************)
(* The SSR module loader of packages/vite/src/node/ssr/ssrModuleLoader.ts  *)
(* as a state machine.                                                     *)
(*                                                                         *)
(* JavaScript runs one continuation at a time: an action of this module is *)
(* one run of an async function from the point where it was called or      *)
(* resumed to its next await (or to its return).  Which of the ready       *)
(* continuations runs next is left open.                                   *)
(*                                                                         *)
(* Strings are sequences of one-character strings, so that dep[0], the     *)
(* concatenation id + importer + root and path.dirname are computed.       *)
(***************************************************************************)
EXTENDS Integers, Sequences, FiniteSets, TLC

\* ------------------------------------------------------------------ bounds

\* Top-level calls ssrLoadModule(url, server) in one behaviour of Spec.
MaxRequests == 2

\* Top-level calls in one behaviour of SpecSeq (one request at a time).
MaxSeqRequests == 2

\* Calls of resolve() in one behaviour of SpecResolve.
MaxResolves == 3

\* ----------------------------------------------------------------- strings

NullStr == <<"n", "u", "l", "l">>

\* null / undefined where a string is expected (mod.file of a virtual module,
\* a missing Map entry, a search that threw): no string of characters equals it
Null == <<"<null>">>

IsNull(s) == s = Null

\* what `+` makes of a string-or-null operand: null gives "null"
ToStr(s) == IF IsNull(s) THEN NullStr ELSE s

\* a + b + c of line 164
Concat3(a, b, c) == ToStr(a) \o ToStr(b) \o ToStr(c)

\* index of the last "/" of s, 0 when there is none
LastSlash(s) ==
  LET idx == {i \in 1..Len(s) : s[i] = "/"}
  IN IF idx = {} THEN 0 ELSE CHOOSE i \in idx : \A j \in idx : j <= i

\* path.dirname: "/r/a" -> "/r", "/a" -> "/", "a" -> "."
dirname(p) ==
  LET i == LastSlash(p)
  IN IF i = 0 THEN <<".">>
     ELSE IF i = 1 THEN <<"/">>
     ELSE SubSeq(p, 1, i - 1)

\* cleanUrl of ../utils: the url without its query and hash
cleanUrl(u) ==
  LET cut == {i \in 1..Len(u) : u[i] \in {"?", "#"}}
  IN IF cut = {} THEN u
     ELSE SubSeq(u, 1, (CHOOSE i \in cut : \A j \in cut : i <= j) - 1)

\* VALID_ID_PREFIX of ../utils
VALID_ID_PREFIX == <<"/", "@", "i", "d", "/">>

\* unwrapId of ../utils: strips the /@id/ prefix of a wrapped id
unwrapId(id) ==
  IF Len(id) >= Len(VALID_ID_PREFIX)
     /\ SubSeq(id, 1, Len(VALID_ID_PREFIX)) = VALID_ID_PREFIX
  THEN SubSeq(id, Len(VALID_ID_PREFIX) + 1, Len(id))
  ELSE id

\* line 73: const isExternal = (dep) => dep[0] !== '.' && dep[0] !== '/'
\* (dep[0] of the empty string is undefined, which differs from both)
isExternal(dep) ==
  IF Len(dep) = 0 THEN TRUE ELSE dep[1] # "." /\ dep[1] # "/"

\* ------------------------------------------------------- the served project

\* Module urls of the module graph; /c is a virtual module (no file).
UrlA == <<"/", "a">>

UrlB == <<"/", "b">>

UrlC == <<"/", "c">>

Urls == {UrlA, UrlB, UrlC}

\* Bare package ids: p is a CommonJS package (no __esModule flag), q was
\* compiled from ES modules (module.exports.__esModule = true).
PkgCjs == <<"p">>

PkgEsm == <<"q">>

\* server.config.root
Root == <<"/", "r">>

\* mod.file of each record (null for a virtual module)
File(u) ==
  IF u = UrlA THEN Root \o UrlA
  ELSE IF u = UrlB THEN Root \o UrlB
  ELSE Null

\* Three projects are served.  In "cycle", /a and /b import each other and /a
\* imports package p.  In "full", /a moreover imports /c, which re-exports
\* package q and imports itself dynamically.  In "live", /c re-exports package
\* q and then package p, which both export k.
Projects == {"cycle", "full", "live"}

\* result.deps of the transform result of each url, in the order reported;
\* /b names /a by its wrapped id
TransformDeps(proj, u) ==
  IF u = UrlA THEN (IF proj = "cycle" THEN <<UrlB, PkgCjs>> ELSE <<UrlB, PkgCjs, UrlC>>)
  ELSE IF u = UrlB THEN <<VALID_ID_PREFIX \o UrlA>>
  ELSE IF proj = "live" THEN <<PkgEsm, PkgCjs>>
  ELSE <<PkgEsm>>

\* Property keys and the values modules assign
Keys == {"default", "k"}

\* the order in which for-in visits them
KeyOrder == <<"default", "k">>

Op(o, d, k, n) == [op |-> o, dep |-> d, key |-> k, n |-> n]

\* result.code of each url, as the calls it makes on its parameters:
\*   import     __vite_ssr_import__(dep), kept in a local
\*   exportAll  __vite_ssr_exportAll__(<the local of dep>)
\*   set        __vite_ssr_exports__[key] = n
\*   dynImport  __vite_ssr_dynamic_import__(dep)
Code(proj, u) ==
  IF u = UrlA THEN
    << Op("import", UrlB, "", 0), Op("import", PkgCjs, "", 0) >>
    \o (IF proj = "cycle" THEN << >> ELSE << Op("import", UrlC, "", 0) >>)
    \o << Op("set", <<>>, "k", 1) >>
  ELSE IF u = UrlB THEN
    << Op("import", VALID_ID_PREFIX \o UrlA, "", 0),
       Op("exportAll", VALID_ID_PREFIX \o UrlA, "", 0) >>
  ELSE IF proj = "live" THEN
    << Op("import", PkgEsm, "", 0), Op("import", PkgCjs, "", 0),
       Op("exportAll", PkgEsm, "", 0), Op("exportAll", PkgCjs, "", 0),
       Op("set", <<>>, "default", 2) >>
  ELSE
    << Op("import", PkgEsm, "", 0), Op("exportAll", PkgEsm, "", 0),
       Op("dynImport", UrlC, "", 0), Op("set", <<>>, "default", 2) >>

\* every specifier a module body names
Specifiers == {UrlA, UrlB, UrlC, VALID_ID_PREFIX \o UrlA, PkgCjs, PkgEsm}

\* ------------------------------------------------------------------- values

Undef == [t |-> "undef", n |-> 0]

IntV(n) == [t |-> "int", n |-> n]

ObjV(id) == [t |-> "obj", n |-> id]

Absent == [p |-> "absent", v |-> Undef, src |-> 0]

Data(v) == [p |-> "data", v |-> v, src |-> 0]

\* an accessor property whose get() returns sourceModule[key] (lines 105-111)
Getter(src) == [p |-> "get", v |-> Undef, src |-> src]

NoProps == [k \in Keys |-> Absent]

\* module.exports of the two packages, as require() first returns them
RawCjs == 1

RawEsm == 2

InitHeap ==
  << [kind |-> "raw", frozen |-> FALSE, esModule |-> FALSE,
      props |-> [k \in Keys |-> IF k = "k" THEN Data(IntV(1)) ELSE Absent],
      target |-> 0, defaultExport |-> Undef],
     [kind |-> "raw", frozen |-> FALSE, esModule |-> TRUE,
      props |-> [k \in Keys |-> IF k = "k" THEN Data(IntV(1)) ELSE Data(IntV(2))],
      target |-> 0, defaultExport |-> Undef] >>

\* lines 58-61: { [Symbol.toStringTag]: 'Module' } with a non-enumerable
\* __esModule: true; no string-keyed enumerable property
NewNamespace ==
  [kind |-> "ns", frozen |-> FALSE, esModule |-> TRUE, props |-> NoProps,
   target |-> 0, defaultExport |-> Undef]

RECURSIVE Get(_, _, _)
\* obj[key]: a data property gives its value, an accessor re-reads the source,
\* the Proxy of nodeRequire answers 'default' itself (lines 154-157)
Get(h, o, key) ==
  IF h[o].kind = "proxy" THEN
    IF key = "default" THEN h[o].defaultExport ELSE Get(h, h[o].target, key)
  ELSE IF h[o].props[key].p = "data" THEN h[o].props[key].v
  ELSE IF h[o].props[key].p = "get" THEN Get(h, h[o].props[key].src, key)
  ELSE Undef

\* the keys `for (const key in obj)` visits: the Proxy has no ownKeys trap,
\* so its target's keys
ForInKeys(h, o) ==
  LET t == IF h[o].kind = "proxy" THEN h[o].target ELSE o
  IN {k \in Keys : h[t].props[k].p # "absent"}

\* ------------------------------------------------ external resolver + cache

\* <dir>/node_modules/<id>, node_modules written n
PackageDir(dir, id) ==
  (IF dir = <<"/">> THEN <<>> ELSE dir) \o <<"/", "n", "/">> \o id

RECURSIVE resolveFrom(_, _, _)
\* resolveFrom(id, basedir, true) of ../utils: the platform's resolution, which
\* looks for the package in basedir and then in each directory above it;
\* Null stands for the error it throws when the package is nowhere
resolveFrom(id, basedir, inst) ==
  IF PackageDir(basedir, id) \in inst THEN PackageDir(basedir, id)
  ELSE IF LastSlash(basedir) = 0 \/ basedir = <<"/">> THEN Null
  ELSE resolveFrom(id, dirname(basedir), inst)

\* lines 169-172: importer && fs.existsSync(cleanUrl(importer))
\*                  ? path.dirname(importer) : root
ResolveDir(importer, root, exist) ==
  IF ~IsNull(importer) /\ importer # <<>> /\ cleanUrl(importer) \in exist
  THEN dirname(importer)
  ELSE root

\* line 164
CacheKey(id, importer, root) == Concat3(id, importer, root)

\* resolveCache.get(key): undefined (Null) when there is no entry
CacheGet(cache, key) == IF key \in DOMAIN cache THEN cache[key] ELSE Null

\* resolve without line 174 (resolveCache.set)
resolveNoStore(id, importer, root, cache, inst, exist) ==
  LET key == CacheKey(id, importer, root)
      cached == CacheGet(cache, key)
      resolved == resolveFrom(id, ResolveDir(importer, root, exist), inst)
  IN IF ~IsNull(cached) /\ cached # <<>>
     THEN [cache |-> cache, path |-> cached, searched |-> FALSE]
     ELSE [cache |-> cache, path |-> resolved, searched |-> TRUE]

\* lines 163-176.  `if (cached)` is a truthiness test: undefined and '' miss.
\* The result: the cache afterwards, the path returned (Null when resolveFrom
\* threw, which resolve lets through) and whether resolveFrom was invoked.
resolve(id, importer, root, cache, inst, exist) ==
  LET key == CacheKey(id, importer, root)
      cached == CacheGet(cache, key)
      resolved == resolveFrom(id, ResolveDir(importer, root, exist), inst)
  IN IF ~IsNull(cached) /\ cached # <<>>
     THEN [cache |-> cache, path |-> cached, searched |-> FALSE]
     ELSE IF IsNull(resolved)
     THEN [cache |-> cache, path |-> Null, searched |-> TRUE]
     ELSE [cache |-> (key :> resolved) @@ cache, path |-> resolved,
           searched |-> TRUE]

\* require(path): the module object of the file, one per package
RequireModule(path) == IF path[Len(path)] = PkgCjs[1] THEN RawCjs ELSE RawEsm

\* line 151 with its branches swapped
DefaultExportSwapped(h, raw) ==
  IF h[raw].esModule THEN ObjV(raw) ELSE Get(h, raw, "default")

\* line 151: const defaultExport = mod.__esModule ? mod.default : mod
DefaultExport(h, raw) ==
  IF h[raw].esModule THEN Get(h, raw, "default") ELSE ObjV(raw)

\* lines 153-158: the Proxy around the module object of `raw`
NewProxy(h, raw) ==
  [kind |-> "proxy", frozen |-> FALSE, esModule |-> h[raw].esModule,
   props |-> NoProps, target |-> raw, defaultExport |-> DefaultExport(h, raw)]

\* -------------------------------------------------------------------- state

VARIABLES
  project,             \* which project the server serves
  ssrModule,           \* mod.ssrModule of each record: a heap object, 0 = unset
  ssrTransformResult,  \* mod.ssrTransformResult of each record is set
  heap,                \* the objects: namespaces, module.exports, Proxies
  pendingModules,      \* line 20: url -> the instantiateModule call, 0 = no entry
  tasks,               \* the calls of ssrLoadModule and instantiateModule
  resolveCache,        \* line 161: key -> resolved path
  installed,           \* the package directories on disk
  existing,            \* the files on disk fs.existsSync sees
  searches,            \* probe: how many times resolveFrom was invoked
  firstPath,           \* probe: <<id, importer, root>> -> the first path returned
  lastResolve,         \* probe: the latest call of resolve (the n-th) and what it did
  failedSearches       \* probe: the triples <<id, importer, root>> whose search threw

vars ==
  << project, ssrModule, ssrTransformResult, heap, pendingModules, tasks, resolveCache,
     installed, existing, searches, firstPath, lastResolve, failedSearches >>

loaderVars == << ssrModule, ssrTransformResult, heap, pendingModules, tasks >>

resolverVars == << resolveCache, searches, firstPath, lastResolve, failedSearches >>

diskVars == << project, installed, existing >>

Range(q) == {q[i] : i \in DOMAIN q}

\* the one element of a singleton set (binds a value that is computed once)
The(S) == CHOOSE x \in S : TRUE

NotImported == [t |-> "none", n |-> 0]

\* One call of an async function and the promise it returned.
\*   fn        "load" (ssrLoadModule) or "inst" (instantiateModule)
\*   pc        the await the call is suspended at, "done" once it returned/threw
\*   state     of its promise; value / err, errUrl: what it settled with
\*   awaiting  the call whose promise it awaits (or returned)
\*   i         index in result.deps of the dependency being loaded
\*   ns        the ssrModule object the instantiation created
\*   cleanup   the .catch().then(delete) chained on it at line 41
\* and what the properties speak about:
\*   origin    "top" (a request), "static" (line 80) or "dynamic" (line 98)
\*   parent    the instantiateModule call that made this call, req the request
\*   win       the first request of the group of concurrent requests it is in
\*   ranBody, transformed   how many times it ran the body / the pipeline
\*   imports   what ssrImport returned to the body for each specifier
\*   reexports the accessors ssrExportAll defined: <<source object, key>>, in order
NewTask(fn, url, stack, origin, parent, req, win) ==
  [fn |-> fn, url |-> url, urlStack |-> stack, pc |-> "ensure",
   state |-> "pending", value |-> 0, err |-> "none", errUrl |-> <<>>,
   awaiting |-> 0, i |-> 0, ns |-> 0, cleanup |-> "none",
   origin |-> origin, parent |-> parent, req |-> req, win |-> win,
   ranBody |-> 0, transformed |-> 0,
   imports |-> [d \in Specifiers |-> NotImported], reexports |-> <<>>]

Fulfil(tk, t, v) ==
  [tk EXCEPT ![t].state = "fulfilled", ![t].value = v, ![t].pc = "done"]

Reject(tk, t, e, eu) ==
  [tk EXCEPT ![t].state = "rejected", ![t].err = e, ![t].errUrl = eu,
             ![t].pc = "done"]

\* The promise of an async function that returned a promise (lines 38, 42)
\* settles as that promise does: a ssrLoadModule call at "return" has the state,
\* value and error of the instantiateModule call it returned.
Promise(tk, t) == IF tk[t].pc = "return" THEN tk[tk[t].awaiting] ELSE tk[t]

StateOf(t) == Promise(tasks, t).state

ValueOf(t) == Promise(tasks, t).value

ErrOf(t) == Promise(tasks, t).err

ErrUrlOf(t) == Promise(tasks, t).errUrl

Settled(t) == StateOf(t) # "pending"

Fulfilled(t) == StateOf(t) = "fulfilled"

Rejected(t) == StateOf(t) = "rejected"

LoadTasks == {t \in DOMAIN tasks : tasks[t].fn = "load"}

InstTasks == {t \in DOMAIN tasks : tasks[t].fn = "inst"}

\* the requests: the calls of ssrLoadModule from outside the loader
TopTasks == {t \in LoadTasks : tasks[t].origin = "top"}

\* ----------------------------------------------------------- the module body

\* resolve() on the resolver's state rs = [cache, searches, first, last, failed]
ResolveStep(rs, id, importer, root, inst, exist) ==
  The({ [cache |-> r.cache,
         searches |-> rs.searches + (IF r.searched THEN 1 ELSE 0),
         first |-> IF IsNull(r.path) \/ <<id, importer, root>> \in DOMAIN rs.first
                   THEN rs.first
                   ELSE (<<id, importer, root>> :> r.path) @@ rs.first,
         last |-> [id |-> id, importer |-> importer, root |-> root,
                   path |-> r.path, searched |-> r.searched,
                   n |-> rs.last.n + 1],
         failed |-> IF IsNull(r.path)
                    THEN rs.failed \cup {<<id, importer, root>>}
                    ELSE rs.failed] :
        r \in {resolve(id, importer, root, rs.cache, inst, exist)} })

\* lines 149-159 on the body's state st: the Proxy is a new object of the heap;
\* st.threw when resolve threw
nodeRequire(st, id, importer, root, inst, exist) ==
  The({ IF IsNull(rs.last.path)
        THEN [st EXCEPT !.rs = rs, !.threw = TRUE, !.err = "resolve", !.ret = Undef]
        ELSE [st EXCEPT !.rs = rs,
                        !.heap = Append(st.heap,
                                   NewProxy(st.heap, RequireModule(rs.last.path))),
                        !.ret = ObjV(Len(st.heap) + 1)] :
        rs \in {ResolveStep(st.rs, id, importer, root, inst, exist)} })

\* lines 86-92
ssrImport(st, u, dep, sm, inst, exist) ==
  IF isExternal(dep)
  THEN nodeRequire(st, dep, File(u), Root, inst, exist)
  ELSE [st EXCEPT !.ret = IF unwrapId(dep) \in Urls /\ sm[unwrapId(dep)] # 0
                          THEN ObjV(sm[unwrapId(dep)]) ELSE Undef]

\* lines 94-100: an internal specifier starts ssrLoadModule with
\* urlStack.concat(url); the call runs to its first await (line 31)
ssrDynamicImport(st, u, dep, t, tk, inst, exist) ==
  IF isExternal(dep)
  THEN nodeRequire(st, dep, File(u), Root, inst, exist)
  ELSE [st EXCEPT !.spawn = Append(st.spawn,
          NewTask("load", unwrapId(dep), Append(tk[t].urlStack, u),
                  "dynamic", t, tk[t].req, 0))]

\* ssrExportAll defining the accessors on sourceModule instead of ssrModule
ssrExportAllOntoSource(h, ns, sourceModule) ==
  IF sourceModule.t # "obj" \/ h[sourceModule.n].kind # "ns" THEN h
  ELSE [h EXCEPT ![sourceModule.n].props =
          [k \in Keys |->
             IF k \in ForInKeys(h, sourceModule.n) /\ k # "default"
             THEN Getter(ns)
             ELSE h[sourceModule.n].props[k]]]

\* ssrExportAll copying the value each key has when it is called (a snapshot)
ssrExportAllSnapshot(h, ns, sourceModule) ==
  IF sourceModule.t # "obj" THEN h
  ELSE [h EXCEPT ![ns].props =
          [k \in Keys |->
             IF k \in ForInKeys(h, sourceModule.n) /\ k # "default"
             THEN Data(Get(h, sourceModule.n, k))
             ELSE h[ns].props[k]]]

\* lines 102-114: for each key of sourceModule but 'default', an enumerable
\* configurable accessor on ssrModule that returns sourceModule[key]
ssrExportAll(h, ns, sourceModule) ==
  IF sourceModule.t # "obj" THEN h
  ELSE [h EXCEPT ![ns].props =
          [k \in Keys |->
             IF k \in ForInKeys(h, sourceModule.n) /\ k # "default"
             THEN Getter(sourceModule.n)
             ELSE h[ns].props[k]]]

\* the accessors a call ssrExportAll(sourceModule) defines (lines 103-105), as
\* pairs <<source object, key>>
ExportedKeys(h, sourceModule) ==
  IF sourceModule.t # "obj" THEN <<>>
  ELSE LET sel == SelectSeq(KeyOrder,
                     LAMBDA k : k \in ForInKeys(h, sourceModule.n) /\ k # "default")
       IN [i \in 1..Len(sel) |-> <<sourceModule.n, sel[i]>>]

\* ssrModule[key] = n in the body (sloppy mode): an accessor without a setter
\* ignores the assignment, a frozen object too
Assign(h, ns, key, n) ==
  IF h[ns].frozen \/ h[ns].props[key].p = "get" THEN h
  ELSE [h EXCEPT ![ns].props[key] = Data(IntV(n))]

\* one call of the body
ExecOp(st, op, u, t, tk, sm, inst, exist) ==
  IF op.op = "import" THEN
    The({ IF s1.threw THEN s1 ELSE [s1 EXCEPT !.imports[op.dep] = s1.ret] :
          s1 \in {ssrImport(st, u, op.dep, sm, inst, exist)} })
  ELSE IF op.op = "exportAll" THEN
    [st EXCEPT !.heap = ssrExportAll(st.heap, tk[t].ns, st.imports[op.dep]),
               !.reexports = @ \o ExportedKeys(st.heap, st.imports[op.dep])]
  ELSE IF op.op = "set" THEN
    [st EXCEPT !.heap = Assign(st.heap, tk[t].ns, op.key, op.n)]
  ELSE ssrDynamicImport(st, u, op.dep, t, tk, inst, exist)

RECURSIVE ExecBody(_, _, _, _, _, _, _, _, _)
\* lines 117-132: the calls of result.code from the k-th on, until one throws
\* (the state after a call is bound as a set element, so that it is computed
\* once)
ExecBody(st, ops, k, u, t, tk, sm, inst, exist) ==
  IF k > Len(ops) \/ st.threw THEN st
  ELSE The({ExecBody(s1, ops, k + 1, u, t, tk, sm, inst, exist) :
              s1 \in {ExecOp(st, ops[k], u, t, tk, sm, inst, exist)}})

\* ------------------------------------------------------------------ actions

\* urls a request handler may ask for: each module of the project, /a also by
\* its wrapped id
RequestUrls ==
  {UrlA, UrlB, VALID_ID_PREFIX \o UrlA} \cup (IF project = "cycle" THEN {} ELSE {UrlC})

\* the first of the unsettled top-level requests for url that opened a group
OpenWindow(url) ==
  {f \in TopTasks : tasks[f].url = url /\ tasks[f].win = f /\ ~Settled(f)}

\* lines 22-31: a call ssrLoadModule(u, server) with the default urlStack = [],
\* up to its await of moduleGraph.ensureEntryFromUrl(url)
CallLoad(u, limit) ==
  LET url == unwrapId(u)
      id == Len(tasks) + 1
      win == IF OpenWindow(url) = {} THEN id ELSE CHOOSE f \in OpenWindow(url) : TRUE
  IN /\ Cardinality(TopTasks) < limit
     /\ tasks' = Append(tasks, NewTask("load", url, <<>>, "top", 0, id, win))
     /\ UNCHANGED << ssrModule, ssrTransformResult, heap, pendingModules,
                     resolverVars, diskVars >>

Request(u) == CallLoad(u, MaxRequests)

\* ssrLoadModule without the pending-table lookup of lines 37-38
LoadResumeNoLookup(t) ==
  LET url == tasks[t].url
      id == Len(tasks) + 1
  IN /\ tasks[t].fn = "load" /\ tasks[t].pc = "ensure"
     /\ IF url \in Range(tasks[t].urlStack)
        THEN /\ tasks' = Fulfil(tasks, t, ssrModule[url])
             /\ UNCHANGED pendingModules
        ELSE /\ tasks' = Append(
                  [tasks EXCEPT ![t].pc = "return", ![t].awaiting = id],
                  [NewTask("inst", url, tasks[t].urlStack, tasks[t].origin,
                           t, tasks[t].req, 0) EXCEPT !.cleanup = "armed"])
             /\ pendingModules' = [pendingModules EXCEPT ![url] = id]
     /\ UNCHANGED << ssrModule, ssrTransformResult, heap, resolverVars, diskVars >>

\* ssrLoadModule without the cycle check of line 35
LoadResumeNoCycleCheck(t) ==
  LET url == tasks[t].url
      id == Len(tasks) + 1
  IN /\ tasks[t].fn = "load" /\ tasks[t].pc = "ensure"
     /\ IF pendingModules[url] # 0
        THEN /\ tasks' = [tasks EXCEPT ![t].pc = "return",
                                       ![t].awaiting = pendingModules[url]]
             /\ UNCHANGED pendingModules
        ELSE /\ tasks' = Append(
                  [tasks EXCEPT ![t].pc = "return", ![t].awaiting = id],
                  [NewTask("inst", url, tasks[t].urlStack, tasks[t].origin,
                           t, tasks[t].req, 0) EXCEPT !.cleanup = "armed"])
             /\ pendingModules' = [pendingModules EXCEPT ![url] = id]
     /\ UNCHANGED << ssrModule, ssrTransformResult, heap, resolverVars, diskVars >>

\* lines 33-42, from the resumption after line 31 to the return:
\* the cycle check, the pending-table lookup, else the start of
\* instantiateModule (which runs to its own await at line 52), the table
\* entry and the cleanup chained on the promise
LoadResume(t) ==
  LET url == tasks[t].url
      id == Len(tasks) + 1
  IN /\ tasks[t].fn = "load" /\ tasks[t].pc = "ensure"
     /\ IF url \in Range(tasks[t].urlStack)
        THEN /\ tasks' = Fulfil(tasks, t, ssrModule[url])
             /\ UNCHANGED pendingModules
        ELSE IF pendingModules[url] # 0
        THEN /\ tasks' = [tasks EXCEPT ![t].pc = "return",
                                       ![t].awaiting = pendingModules[url]]
             /\ UNCHANGED pendingModules
        ELSE /\ tasks' = Append(
                  [tasks EXCEPT ![t].pc = "return", ![t].awaiting = id],
                  [NewTask("inst", url, tasks[t].urlStack, tasks[t].origin,
                           t, tasks[t].req, 0) EXCEPT !.cleanup = "armed"])
             /\ pendingModules' = [pendingModules EXCEPT ![url] = id]
     /\ UNCHANGED << ssrModule, ssrTransformResult, heap, resolverVars, diskVars >>

\* the cleanup chained without the .catch: modulePromise.then(() => delete)
\* runs for a fulfilled promise only
CleanupOnSuccessOnly(t) ==
  /\ tasks[t].fn = "inst" /\ tasks[t].cleanup = "armed"
  /\ tasks[t].state = "fulfilled"
  /\ pendingModules' = [pendingModules EXCEPT ![tasks[t].url] = 0]
  /\ tasks' = [tasks EXCEPT ![t].cleanup = "done"]
  /\ UNCHANGED << ssrModule, ssrTransformResult, heap, resolverVars, diskVars >>

\* line 41: modulePromise.catch(() => {}).then(() => pendingModules.delete(url))
Cleanup(t) ==
  /\ tasks[t].fn = "inst" /\ tasks[t].cleanup = "armed"
  /\ Settled(t)
  /\ pendingModules' = [pendingModules EXCEPT ![tasks[t].url] = 0]
  /\ tasks' = [tasks EXCEPT ![t].cleanup = "done"]
  /\ UNCHANGED << ssrModule, ssrTransformResult, heap, resolverVars, diskVars >>

\* the dependency loop taking the internal dependencies from the end of
\* result.deps
NextInternalLast(deps, i) ==
  LET idx == {j \in i..Len(deps) : ~isExternal(deps[j])}
  IN IF idx = {} THEN 0 ELSE CHOOSE j \in idx : \A l \in idx : j >= l

\* index of the first internal dependency of deps from index i on, 0 = none
\* (lines 78-79)
NextInternal(deps, i) ==
  LET idx == {j \in i..Len(deps) : ~isExternal(deps[j])}
  IN IF idx = {} THEN 0 ELSE CHOOSE j \in idx : \A l \in idx : j <= l

\* the body's state when the body starts
BodyStart(hp) ==
  [heap |-> hp,
   rs |-> [cache |-> resolveCache, searches |-> searches, first |-> firstPath,
           last |-> lastResolve, failed |-> failedSearches],
   imports |-> [d \in Specifiers |-> NotImported], reexports |-> <<>>,
   ret |-> Undef, threw |-> FALSE, err |-> "none", spawn |-> <<>>]

\* lines 116-146: run the body; if it threw, rethrow (the namespace stays as
\* the body left it, unfrozen); else freeze the namespace and return it.
\* raises: the body throws an error of its own after its calls.
Evaluate(t, tk, sm, hp, raises) ==
  \E st \in {ExecBody(BodyStart(hp), Code(project, tk[t].url), 1, tk[t].url,
                      t, tk, sm, installed, existing)} :
  \E ran \in {[tk EXCEPT ![t].ranBody = @ + 1, ![t].imports = st.imports,
                          ![t].reexports = st.reexports]} :
     /\ IF st.threw \/ raises
        THEN /\ tasks' = Reject(ran, t, IF st.threw THEN st.err ELSE "eval",
                                tk[t].url) \o st.spawn
             /\ heap' = st.heap
        ELSE /\ tasks' = Fulfil(ran, t, tk[t].ns) \o st.spawn
             /\ heap' = [st.heap EXCEPT ![tk[t].ns].frozen = TRUE]
     /\ resolveCache' = st.rs.cache
     /\ searches' = st.rs.searches
     /\ firstPath' = st.rs.first
     /\ lastResolve' = st.rs.last
     /\ failedSearches' = st.rs.failed
     /\ ssrModule' = sm

\* lines 78-82 from index i of result.deps on: start the load of the next
\* internal dependency and await it, or, after the last one, run the body
Continue(t, i, tk, sm, hp) ==
  LET u == tk[t].url
      deps == TransformDeps(project, u)
      j == NextInternal(deps, i)
  IN IF j # 0
     THEN /\ tasks' = Append(
               [tk EXCEPT ![t].pc = "dep", ![t].i = j,
                          ![t].awaiting = Len(tk) + 1],
               NewTask("load", unwrapId(deps[j]), Append(tk[t].urlStack, u),
                       "static", t, tk[t].req, 0))
          /\ ssrModule' = sm
          /\ heap' = hp
          /\ UNCHANGED resolverVars
     ELSE \E raises \in BOOLEAN : Evaluate(t, tk, sm, hp, raises)

\* instantiateModule without the short-circuit of lines 54-56
InstResumeNoShortCircuit(t) ==
  LET u == tasks[t].url
      id == Len(heap) + 1
      hp == Append(heap, NewNamespace)
      sm == [ssrModule EXCEPT ![u] = id]
      tk == [tasks EXCEPT ![t].ns = id]
  IN /\ tasks[t].fn = "inst" /\ tasks[t].pc = "ensure"
     /\ IF ssrTransformResult[u]
        THEN Continue(t, 1, tk, sm, hp)
        ELSE /\ tasks' = [tk EXCEPT ![t].pc = "transform", ![t].transformed = @ + 1]
             /\ ssrModule' = sm
             /\ heap' = hp
             /\ UNCHANGED resolverVars
     /\ UNCHANGED << ssrTransformResult, pendingModules, diskVars >>

\* instantiateModule without line 63 (mod.ssrModule = ssrModule)
InstResumeNoInstall(t) ==
  LET u == tasks[t].url
      id == Len(heap) + 1
      hp == Append(heap, NewNamespace)
      tk == [tasks EXCEPT ![t].ns = id]
  IN /\ tasks[t].fn = "inst" /\ tasks[t].pc = "ensure"
     /\ IF ssrModule[u] # 0 /\ heap[ssrModule[u]].frozen
        THEN /\ tasks' = Fulfil(tasks, t, ssrModule[u])
             /\ UNCHANGED << ssrModule, heap, resolverVars >>
        ELSE IF ssrTransformResult[u]
        THEN Continue(t, 1, tk, ssrModule, hp)
        ELSE /\ tasks' = [tk EXCEPT ![t].pc = "transform", ![t].transformed = @ + 1]
             /\ UNCHANGED ssrModule
             /\ heap' = hp
             /\ UNCHANGED resolverVars
     /\ UNCHANGED << ssrTransformResult, pendingModules, diskVars >>

\* instantiateModule returning any namespace the record has, frozen or not
\* (line 54 without Object.isFrozen)
InstResumeNoFrozenCheck(t) ==
  LET u == tasks[t].url
      id == Len(heap) + 1
      hp == Append(heap, NewNamespace)
      sm == [ssrModule EXCEPT ![u] = id]
      tk == [tasks EXCEPT ![t].ns = id]
  IN /\ tasks[t].fn = "inst" /\ tasks[t].pc = "ensure"
     /\ IF ssrModule[u] # 0
        THEN /\ tasks' = Fulfil(tasks, t, ssrModule[u])
             /\ UNCHANGED << ssrModule, heap, resolverVars >>
        ELSE IF ssrTransformResult[u]
        THEN Continue(t, 1, tk, sm, hp)
        ELSE /\ tasks' = [tk EXCEPT ![t].pc = "transform", ![t].transformed = @ + 1]
             /\ ssrModule' = sm
             /\ heap' = hp
             /\ UNCHANGED resolverVars
     /\ UNCHANGED << ssrTransformResult, pendingModules, diskVars >>

\* lines 52-67, from the resumption after line 52: return the frozen
\* namespace, else install a new one and get the transform result: the cached
\* one (and go on without suspending) or the pipeline's (await)
InstResume(t) ==
  LET u == tasks[t].url
      id == Len(heap) + 1
      hp == Append(heap, NewNamespace)
      sm == [ssrModule EXCEPT ![u] = id]
      tk == [tasks EXCEPT ![t].ns = id]
  IN /\ tasks[t].fn = "inst" /\ tasks[t].pc = "ensure"
     /\ IF ssrModule[u] # 0 /\ heap[ssrModule[u]].frozen
        THEN /\ tasks' = Fulfil(tasks, t, ssrModule[u])
             /\ UNCHANGED << ssrModule, heap, resolverVars >>
        ELSE IF ssrTransformResult[u]
        THEN Continue(t, 1, tk, sm, hp)
        ELSE /\ tasks' = [tk EXCEPT ![t].pc = "transform", ![t].transformed = @ + 1]
             /\ ssrModule' = sm
             /\ heap' = hp
             /\ UNCHANGED resolverVars
     /\ UNCHANGED << ssrTransformResult, pendingModules, diskVars >>

\* instantiateModule without the check of lines 68-71: with no result it
\* returns the namespace as it is
InstTransformedNoThrow(t) ==
  /\ tasks[t].fn = "inst" /\ tasks[t].pc = "transform"
  /\ \E result \in BOOLEAN :
       IF result
       THEN /\ ssrTransformResult' = [ssrTransformResult EXCEPT ![tasks[t].url] = TRUE]
            /\ Continue(t, 1, tasks, ssrModule, heap)
       ELSE /\ tasks' = Fulfil(tasks, t, tasks[t].ns)
            /\ UNCHANGED << ssrTransformResult, ssrModule, heap, resolverVars >>
  /\ UNCHANGED << pendingModules, diskVars >>

\* lines 67-71, from the resumption after transformRequest: no result throws
\* `failed to load module for ssr: ${url}`; a result is kept on the record by
\* the pipeline and the dependency loop starts
InstTransformed(t) ==
  /\ tasks[t].fn = "inst" /\ tasks[t].pc = "transform"
  /\ \E result \in BOOLEAN :
       IF result
       THEN /\ ssrTransformResult' = [ssrTransformResult EXCEPT ![tasks[t].url] = TRUE]
            /\ Continue(t, 1, tasks, ssrModule, heap)
       ELSE /\ tasks' = Reject(tasks, t, "transform", tasks[t].url)
            /\ UNCHANGED << ssrTransformResult, ssrModule, heap, resolverVars >>
  /\ UNCHANGED << pendingModules, diskVars >>

\* the dependency loop with the rejection of a dependency's load swallowed
InstDepLoadedSwallow(t) ==
  LET c == tasks[t].awaiting
  IN /\ tasks[t].fn = "inst" /\ tasks[t].pc = "dep"
     /\ Settled(c)
     /\ Continue(t, tasks[t].i + 1, tasks, ssrModule, heap)
     /\ UNCHANGED << ssrTransformResult, pendingModules, diskVars >>

\* the dependency loop without the await of line 80: the loop goes on while
\* the load it started is still pending
InstDepLoadedNoAwait(t) ==
  /\ tasks[t].fn = "inst" /\ tasks[t].pc = "dep"
  /\ Continue(t, tasks[t].i + 1, tasks, ssrModule, heap)
  /\ UNCHANGED << ssrTransformResult, pendingModules, diskVars >>

\* line 80, from the resumption after the awaited ssrLoadModule: its rejection
\* is thrown out of instantiateModule, its fulfilment goes on with the loop
InstDepLoaded(t) ==
  LET c == tasks[t].awaiting
  IN /\ tasks[t].fn = "inst" /\ tasks[t].pc = "dep"
     /\ Settled(c)
     /\ IF Rejected(c)
        THEN /\ tasks' = Reject(tasks, t, ErrOf(c), ErrUrlOf(c))
             /\ UNCHANGED << ssrModule, heap, resolverVars >>
        ELSE Continue(t, tasks[t].i + 1, tasks, ssrModule, heap)
     /\ UNCHANGED << ssrTransformResult, pendingModules, diskVars >>

\* ------------------------------------------------------------ specifications

NoResolve ==
  [id |-> <<>>, importer |-> Null, root |-> <<>>, path |-> Null,
   searched |-> FALSE, n |-> 0]

\* the disk of the served project: both packages in <root>/node_modules
AllInstalled == {PackageDir(Root, PkgCjs), PackageDir(Root, PkgEsm)}

\* ... or package p missing
Layouts == {AllInstalled, {PackageDir(Root, PkgEsm)}}

ProjectFiles == {Root \o UrlA, Root \o UrlB}

InitLoader ==
  /\ ssrModule = [u \in Urls |-> 0]
  /\ ssrTransformResult = [u \in Urls |-> FALSE]
  /\ heap = InitHeap
  /\ pendingModules = [u \in Urls |-> 0]
  /\ tasks = <<>>
  /\ resolveCache = <<>>
  /\ installed \in Layouts
  /\ existing = ProjectFiles
  /\ searches = 0
  /\ firstPath = <<>>
  /\ lastResolve = NoResolve
  /\ failedSearches = {}

Init == project = "cycle" /\ InitLoader

Step(t) ==
  \/ LoadResume(t)
  \/ InstResume(t)
  \/ InstTransformed(t)
  \/ InstDepLoaded(t)
  \/ Cleanup(t)

Next ==
  \/ \E u \in RequestUrls : Request(u)
  \/ \E t \in DOMAIN tasks : Step(t)

\* any number of requests in flight at once
Spec == Init /\ [][Next]_vars

\* no call is suspended and no cleanup is left to run
Quiescent ==
  \A t \in DOMAIN tasks : Settled(t) /\ tasks[t].cleanup # "armed"

\* a request made while no load is in flight
RequestSeq(u) == Quiescent /\ CallLoad(u, MaxSeqRequests)

InitSeq == project = "full" /\ InitLoader

NextSeq ==
  \/ \E u \in RequestUrls : RequestSeq(u)
  \/ \E t \in DOMAIN tasks : Step(t)

\* the event loop runs a continuation that is ready (it leaves none behind,
\* and the module graph and the transform pipeline answer every call)
Fairness == WF_vars(\E t \in DOMAIN tasks : Step(t))

\* one request at a time, on the full project
SpecSeq == InitSeq /\ [][NextSeq]_vars /\ Fairness

\* --------------------------------------------------- what the claims speak of

Frozen(u) == ssrModule[u] # 0 /\ heap[ssrModule[u]].frozen

\* the requests of the group that request f opened: those made for the same
\* url before f settled
Window(f) == {t \in TopTasks : tasks[t].win = f}

Windows == {f \in TopTasks : tasks[f].win = f}

\* the instantiateModule calls whose promise the calls of T returned
Serving(T) == {tasks[t].awaiting : t \in {x \in T : tasks[x].pc = "return"}}

BodyRuns(I) == Cardinality({i \in I : tasks[i].ranBody > 0})

PipelineCalls(I) == Cardinality({i \in I : tasks[i].transformed > 0})

\* how many times the body of u has been run so far
BodyRunsOf(u) == BodyRuns({i \in InstTasks : tasks[i].url = u})

SettlingLoads(u) ==
  {t \in DOMAIN tasks' :
     /\ tasks'[t].fn = "load" /\ tasks'[t].url = u
     /\ Promise(tasks', t).state # "pending"
     /\ (t \in DOMAIN tasks => ~Settled(t))}

\* C2: once the namespace of u is frozen (a load of u has returned it), no
\* step replaces the record's namespace or runs the body of u, and every call
\* of ssrLoadModule(u) that settles is fulfilled with that object.
C2_Step ==
  \A u \in Urls :
    Frozen(u) =>
      /\ ssrModule'[u] = ssrModule[u]
      /\ BodyRunsOf(u)' = BodyRunsOf(u)
      /\ \A t \in SettlingLoads(u) :
           /\ Promise(tasks', t).state = "fulfilled"
           /\ Promise(tasks', t).value = ssrModule[u]

C2_Idempotence == [][C2_Step]_vars

\* a later load of a complete module, served by an instantiation that took
\* the short-circuit of line 55, after another load has failed
C2_Witness ==
  \E i \in InstTasks : \E t \in LoadTasks : \E r \in TopTasks :
    /\ Fulfilled(i) /\ tasks[i].ranBody = 0 /\ tasks[i].ns = 0
    /\ tasks[t].pc = "return" /\ tasks[t].awaiting = i
    /\ ValueOf(t) = ssrModule[tasks[t].url]
    /\ Rejected(r) /\ r < t

\* the instantiateModule call that made the call c of ssrLoadModule from its
\* dependency loop
StaticParent(c) == tasks[c].parent

\* C7: an instantiation whose pipeline gave no result, whose body raised or
\* whose dependency's load was rejected is rejected; a call that returned its
\* promise is rejected with the same error; and the instantiation that awaited
\* a rejected load in its dependency loop is rejected with that error, has not
\* run its body and has left its namespace unfrozen.
C7_FailurePropagation ==
  /\ \A c \in LoadTasks :
       (tasks[c].pc = "return" /\ tasks[tasks[c].awaiting].state = "rejected") =>
         /\ Rejected(c)
         /\ ErrOf(c) = tasks[tasks[c].awaiting].err
  /\ \A c \in LoadTasks :
       LET i == StaticParent(c)
       IN (tasks[c].origin = "static" /\ Rejected(c)
           /\ ~(tasks[i].pc = "dep" /\ tasks[i].awaiting = c)) =>
            /\ tasks[i].state = "rejected"
            /\ tasks[i].err = ErrOf(c) /\ tasks[i].errUrl = ErrUrlOf(c)
            /\ tasks[i].ranBody = 0
            /\ ~heap[tasks[i].ns].frozen
  /\ \A i \in InstTasks :
       (tasks[i].state = "rejected" /\ tasks[i].err = "transform"
        /\ tasks[i].errUrl = tasks[i].url) =>
         tasks[i].ranBody = 0 /\ ~heap[tasks[i].ns].frozen

\* the failure of /b's body reached the request for /a through /a's
\* dependency loop
C7_Witness ==
  \E r \in TopTasks : \E c \in LoadTasks :
    /\ tasks[r].url = UrlA /\ Rejected(r)
    /\ ErrOf(r) = "eval" /\ ErrUrlOf(r) = UrlB
    /\ tasks[c].origin = "static" /\ tasks[c].url = UrlB /\ Rejected(c)
    /\ tasks[r].pc = "return" /\ StaticParent(c) = tasks[r].awaiting

\* the state of the record of u (section 4.2 of the specification)
Status(u) ==
  IF ssrModule[u] = 0 THEN "Unloaded"
  ELSE IF heap[ssrModule[u]].frozen THEN "Complete"
  ELSE IF \E i \in InstTasks :
            tasks[i].ns = ssrModule[u] /\ tasks[i].state = "pending"
       THEN "Instantiating"
  ELSE "Failed"

Transitions ==
  { <<"Unloaded", "Instantiating">>, <<"Instantiating", "Complete">>,
    <<"Instantiating", "Failed">>, <<"Failed", "Instantiating">> }

\* C8: a frozen namespace stays the record's namespace and stays as it is, the
\* body of its module is not run again, and a record changes state only along
\* Unloaded -> Instantiating -> Complete | Failed and Failed -> Instantiating
\* (one continuation that installs a new namespace and runs the body without
\* suspending passes through Instantiating within the step).
C8_Step ==
  \A u \in Urls :
    /\ Frozen(u) =>
         /\ ssrModule'[u] = ssrModule[u]
         /\ heap'[ssrModule[u]] = heap[ssrModule[u]]
         /\ BodyRunsOf(u)' = BodyRunsOf(u)
    /\ \/ Status(u)' = Status(u) /\ ssrModule'[u] = ssrModule[u]
       \/ <<Status(u), Status(u)'>> \in Transitions
       \/ /\ Status(u) \in {"Unloaded", "Failed"}
          /\ ssrModule'[u] \notin DOMAIN heap
          /\ Status(u)' \in {"Complete", "Failed"}
          /\ BodyRunsOf(u)' = BodyRunsOf(u) + 1

C8_CompleteAbsorbing == [][C8_Step]_vars

\* a complete module whose record was asked for again, next to a failed one
\* that was instantiated again
C8_Witness ==
  /\ Status(UrlA) = "Complete"
  /\ \E i \in InstTasks : tasks[i].url = UrlA /\ Fulfilled(i) /\ tasks[i].ranBody = 0
  /\ \E i, j \in InstTasks :
       /\ tasks[i].url = UrlB /\ tasks[j].url = UrlB /\ i < j
       /\ tasks[i].state = "rejected" /\ tasks[i].ns # 0 /\ tasks[j].ns # 0

\* Spec with the event loop running every ready continuation
SpecFair == Spec /\ Fairness

\* the calls of ssrLoadModule whose urlStack holds their url
CycleLoads == {t \in LoadTasks : tasks[t].url \in Range(tasks[t].urlStack)}

RECURSIVE Ancestors(_)
\* the calls up the chain of calls that made call t
Ancestors(t) ==
  IF tasks[t].parent = 0 THEN {}
  ELSE {tasks[t].parent} \cup Ancestors(tasks[t].parent)

\* per request and module, the instantiations that ran the body
RanFor(r, u) ==
  {i \in InstTasks : tasks[i].req = r /\ tasks[i].url = u /\ tasks[i].ranBody > 0}

\* C3: a request made while no load is in flight settles, also on the cycle
\* /a <-> /b; within it a call whose url is on its call stack returns at the
\* cycle check (it starts no instantiation and awaits none) and the body of
\* each module is run at most once.
C3_CycleTermination ==
  /\ [](\A r \in TopTasks : \A u \in Urls : Cardinality(RanFor(r, u)) <= 1)
  /\ [](\A t \in CycleLoads : tasks[t].pc # "return")
  /\ ((\E r \in TopTasks : ~Settled(r)) ~> (\A r \in TopTasks : Settled(r)))

\* the request for /a is fulfilled and the load of /a from /b's dependency
\* loop, with call stack [/a, /b], returned at the cycle check
C3_Witness ==
  \E r \in TopTasks : \E c \in CycleLoads :
    /\ tasks[r].url = UrlA /\ Fulfilled(r)
    /\ tasks[c].req = r /\ tasks[c].urlStack = <<UrlA, UrlB>>
    /\ tasks[c].url = UrlA /\ Fulfilled(c)
    /\ Cardinality(RanFor(r, UrlA)) = 1 /\ Cardinality(RanFor(r, UrlB)) = 1

\* the instantiations of the url of t whose namespace object t returned
Installers(t) ==
  {i \in InstTasks : tasks[i].url = tasks[t].url /\ tasks[i].ns = tasks[t].value}

\* C4, in states: a call whose url is on its call stack starts or awaits no
\* instantiation; once it returned it is fulfilled with a non-null object,
\* which is the object an instantiation of that url installed on the record:
\* for a call from a dependency loop, the instantiation up its chain of calls;
\* and that instantiation, if it is fulfilled, returned this very object,
\* frozen.
C4_Inv ==
  \A t \in CycleLoads :
    /\ tasks[t].pc # "return"
    /\ tasks[t].pc = "done" =>
         /\ tasks[t].state = "fulfilled"
         /\ tasks[t].value # 0
         /\ Installers(t) # {}
         /\ tasks[t].origin = "static" => Installers(t) \cap Ancestors(t) # {}
         /\ \A i \in Installers(t) :
              /\ tasks[i].state = "fulfilled" =>
                   tasks[i].value = tasks[t].value /\ heap[tasks[t].value].frozen
              /\ tasks[t].origin = "static" /\ tasks[i].state = "rejected" =>
                   ~heap[tasks[t].value].frozen

\* C4, in steps: the object returned is the record's namespace at that moment,
\* and for a call from a dependency loop the instantiation that installed it
\* is still in progress.
C4_Step ==
  \A t \in DOMAIN tasks :
    (t \in CycleLoads /\ tasks[t].pc = "ensure" /\ tasks'[t].pc = "done") =>
      /\ tasks'[t].value = ssrModule[tasks[t].url]
      /\ tasks[t].origin = "static" =>
           \E i \in Ancestors(t) :
             /\ tasks[i].fn = "inst" /\ tasks[i].url = tasks[t].url
             /\ tasks[i].ns = ssrModule[tasks[t].url] /\ tasks[i].state = "pending"

\* C4: a call of ssrLoadModule whose call stack holds its url returns the
\* record's current namespace, which is non-null and is the namespace object
\* of the instantiation in progress, without starting an instantiation.
C4_CyclePartnerSeesNamespace == []C4_Inv /\ [][C4_Step]_vars

\* /b's body imported /a while /a was being instantiated and got the object
\* that /a's instantiation later froze
C4_Witness ==
  \E c \in CycleLoads : \E i \in InstTasks : \E b \in InstTasks :
    /\ tasks[c].origin = "static" /\ tasks[c].url = UrlA /\ Fulfilled(c)
    /\ i \in Ancestors(c) /\ tasks[i].url = UrlA /\ tasks[i].ns = tasks[c].value
    /\ tasks[i].state = "fulfilled" /\ heap[tasks[c].value].frozen
    /\ b = tasks[c].parent /\ tasks[b].url = UrlB
    /\ tasks[b].imports[VALID_ID_PREFIX \o UrlA] = ObjV(tasks[c].value)

\* C5 as stated: when /b's body has called export-all on the namespace of an
\* instantiation of /a and that instantiation has finished, key k reads the
\* same on /b's namespace as on /a's.
C5_AsStated ==
  \A a, b \in InstTasks :
    ( /\ tasks[a].url = UrlA /\ tasks[b].url = UrlB
      /\ tasks[a].state = "fulfilled" /\ tasks[b].state = "fulfilled"
      /\ tasks[b].ranBody > 0
      /\ tasks[b].imports[VALID_ID_PREFIX \o UrlA] = ObjV(tasks[a].ns) ) =>
      /\ Get(heap, tasks[a].ns, "k") = IntV(1)
      /\ Get(heap, tasks[b].ns, "k") = Get(heap, tasks[a].ns, "k")

\* C6, the table at rest: when no instantiation is in progress and every
\* cleanup has run, the table is empty; an entry is the one instantiation of
\* its url that is in progress or awaits its cleanup
C6_Inv ==
  /\ (\A i \in InstTasks : tasks[i].state # "pending" /\ tasks[i].cleanup = "done")
       => \A u \in Urls : pendingModules[u] = 0
  /\ \A u \in Urls :
       pendingModules[u] # 0 =>
         /\ pendingModules[u] \in InstTasks
         /\ tasks[pendingModules[u]].url = u
         /\ tasks[pendingModules[u]].cleanup = "armed"
  /\ \A i \in InstTasks :
       tasks[i].cleanup = "armed" => pendingModules[tasks[i].url] = i

\* C6: an entry of pendingModules whose instantiation has settled, fulfilled
\* or rejected, is removed; the table at rest is empty.
C6_PendingCleanup ==
  /\ []C6_Inv
  /\ \A u \in Urls :
       (pendingModules[u] # 0 /\ tasks[pendingModules[u]].state = "rejected")
         ~> (pendingModules[u] = 0)
  /\ \A u \in Urls :
       (pendingModules[u] # 0 /\ tasks[pendingModules[u]].state = "fulfilled")
         ~> (pendingModules[u] = 0)

\* the entry of a rejected instantiation was removed and the table is empty
C6_Witness ==
  /\ \E i \in InstTasks : tasks[i].state = "rejected" /\ tasks[i].cleanup = "done"
  /\ \E i \in InstTasks : tasks[i].state = "fulfilled" /\ tasks[i].cleanup = "done"
  /\ \A u \in Urls : pendingModules[u] = 0

\* ------------------------------------------------- the resolver on its own

\* ids, importers and roots resolve() is called with: package p and its
\* subpath p/r; no importer, /r/a and /a
ResolveIds == {PkgCjs, PkgCjs \o Root}

ResolveImporters == {Null, Root \o UrlA, UrlA}

ResolveRoots == {Root}

\* where the packages may be installed, and the importer files
DiskDirs == {PackageDir(d, id) : d \in {Root, <<"/">>}, id \in ResolveIds}

DiskFiles == {Root \o UrlA, UrlA}

\* a call resolve(id, importer, root)
ResolveCall(id, importer, root) ==
  /\ lastResolve.n < MaxResolves
  /\ \E rs \in {ResolveStep([cache |-> resolveCache, searches |-> searches,
                             first |-> firstPath, last |-> lastResolve,
                             failed |-> failedSearches],
                            id, importer, root, installed, existing)} :
       /\ resolveCache' = rs.cache
       /\ searches' = rs.searches
       /\ firstPath' = rs.first
       /\ lastResolve' = rs.last
       /\ failedSearches' = rs.failed
  /\ UNCHANGED << loaderVars, diskVars >>

\* the disk changes under the server: a package directory appears or goes
DiskInstall(d) ==
  /\ installed' = IF d \in installed THEN installed \ {d} ELSE installed \cup {d}
  /\ UNCHANGED << loaderVars, resolverVars, project, existing >>

\* ... an importer's file appears or goes
DiskTouch(f) ==
  /\ existing' = IF f \in existing THEN existing \ {f} ELSE existing \cup {f}
  /\ UNCHANGED << loaderVars, resolverVars, project, installed >>

InitResolve ==
  /\ project = "full"
  /\ ssrModule = [u \in Urls |-> 0]
  /\ ssrTransformResult = [u \in Urls |-> FALSE]
  /\ heap = InitHeap
  /\ pendingModules = [u \in Urls |-> 0]
  /\ tasks = <<>>
  /\ resolveCache = <<>>
  /\ installed = {}
  /\ existing = DiskFiles
  /\ searches = 0
  /\ firstPath = <<>>
  /\ lastResolve = NoResolve
  /\ failedSearches = {}

NextResolve ==
  \/ \E id \in ResolveIds : \E importer \in ResolveImporters :
       \E root \in ResolveRoots : ResolveCall(id, importer, root)
  \/ \E d \in DiskDirs : DiskInstall(d)
  \/ \E f \in DiskFiles : DiskTouch(f)

\* calls of resolve() while the disk changes
SpecResolve == InitResolve /\ [][NextResolve]_vars

\* C9: a call of resolve for a triple that was resolved before returns the
\* path returned then, without invoking resolveFrom; no step removes or
\* overwrites an entry of the cache.
C9_Step ==
  /\ lastResolve'.n # lastResolve.n =>
       LET c == lastResolve'
       IN <<c.id, c.importer, c.root>> \in DOMAIN firstPath =>
            /\ c.path = firstPath[<<c.id, c.importer, c.root>>]
            /\ ~c.searched
            /\ searches' = searches
  /\ \A k \in DOMAIN resolveCache :
       k \in DOMAIN resolveCache' /\ resolveCache'[k] = resolveCache[k]

C9_ResolutionMemoized == [][C9_Step]_vars

\* a triple resolved again from the cache after its package left the disk
C9_Witness ==
  /\ lastResolve.n >= 2
  /\ ~lastResolve.searched
  /\ <<lastResolve.id, lastResolve.importer, lastResolve.root>> \in DOMAIN firstPath
  /\ lastResolve.path \notin installed
  /\ searches = 1

\* the Proxies that ssrImport returned to module bodies for external ids
ImportedProxies ==
  {o \in DOMAIN heap :
     \E i \in InstTasks : \E d \in {PkgCjs, PkgEsm} :
       tasks[i].imports[d] = ObjV(o)}

\* C10 as stated: legacy convention -> the `default` property, current
\* convention -> the module object itself.
C10_AsStated ==
  \A o \in ImportedProxies :
    /\ ~heap[heap[o].target].esModule =>
         Get(heap, o, "default") = Get(heap, heap[o].target, "default")
    /\ heap[heap[o].target].esModule =>
         Get(heap, o, "default") = ObjV(heap[o].target)

\* C10, amended: the two conventions the other way round: a dependency
\* without the __esModule flag (legacy convention) yields the module object
\* itself as default, one with the flag (current convention) its `default`
\* property; every other key reads through to the module object.
C10_Interop ==
  \A o \in ImportedProxies :
    /\ heap[o].kind = "proxy"
    /\ ~heap[heap[o].target].esModule =>
         Get(heap, o, "default") = ObjV(heap[o].target)
    /\ heap[heap[o].target].esModule =>
         Get(heap, o, "default") = Get(heap, heap[o].target, "default")
    /\ \A k \in Keys \ {"default"} :
         Get(heap, o, k) = Get(heap, heap[o].target, k)

\* both packages were imported by module bodies
C10_Witness ==
  /\ \E o \in ImportedProxies : heap[o].target = RawCjs
  /\ \E o \in ImportedProxies : heap[o].target = RawEsm

\* ------------------------------------------------------------ later claims

\* result.deps of u without the external ones, in the order reported
InternalDeps(u) == SelectSeq(TransformDeps(project, u), LAMBDA d : ~isExternal(d))

\* the calls of ssrLoadModule made by the dependency loop of instantiation m
StaticChildren(m) ==
  {c \in LoadTasks : tasks[c].origin = "static" /\ tasks[c].parent = m}

\* the position of c among the calls its parent's dependency loop made
RankOf(c) ==
  Cardinality({d \in StaticChildren(tasks[c].parent) : d <= c})

\* C11, in states: the k-th load an instantiation's dependency loop started is
\* the load of its k-th internal dependency, with the call stack extended by
\* the module; a load was started only when every earlier one had settled
\* (fulfilled); the body has run only when the loads of all internal
\* dependencies were started and have returned.
C11_Inv ==
  \A m \in InstTasks :
    LET ch == StaticChildren(m)
        deps == InternalDeps(tasks[m].url)
    IN /\ Cardinality(ch) <= Len(deps)
       /\ \A c \in ch :
            /\ tasks[c].url = unwrapId(deps[RankOf(c)])
            /\ tasks[c].urlStack = Append(tasks[m].urlStack, tasks[m].url)
            /\ (\E d \in ch : d > c) => Settled(c) /\ Fulfilled(c)
       /\ tasks[m].ranBody > 0 =>
            /\ Cardinality(ch) = Len(deps)
            /\ \A c \in ch : Fulfilled(c)

\* C11, in steps: the resolver is called (an external dependency is loaded)
\* only by a step that runs a body, never by the dependency loop.
C11_Step ==
  lastResolve'.n # lastResolve.n =>
    \E m \in InstTasks : tasks'[m].ranBody = tasks[m].ranBody + 1

\* C11: within one instantiation the internal dependencies are loaded in the
\* order of result.deps, one settled before the next is started, external ones
\* are not loaded by the loop, and the body runs after the last load returned.
C11_SequentialOrder == []C11_Inv /\ [][C11_Step]_vars

\* /a ran its body after its loop loaded /b and then /c, skipping package p,
\* which the body then imported
C11_Witness ==
  \E m \in InstTasks : \E b, c \in StaticChildren(m) :
    /\ tasks[m].url = UrlA /\ tasks[m].ranBody = 1 /\ Fulfilled(m)
    /\ b < c /\ tasks[b].url = UrlB /\ tasks[c].url = UrlC
    /\ tasks[m].imports[PkgCjs] # NotImported

\* the instantiations whose body runs in this step
RunningBody == {m \in InstTasks : tasks'[m].ranBody = tasks[m].ranBody + 1}

\* C12: in the step that runs the body of M, the record of every internal
\* dependency D of result.deps has a namespace, which was frozen before the
\* step unless D is M itself or is on M's call stack; and what the body's
\* import of D returned, within the step, is that namespace.
C12_Step ==
  \A m \in RunningBody :
    \A k \in 1..Len(InternalDeps(tasks[m].url)) :
      LET d == InternalDeps(tasks[m].url)[k]
          D == unwrapId(d)
      IN /\ ssrModule'[D] # 0
         /\ \/ D = tasks[m].url
            \/ D \in Range(tasks[m].urlStack)
            \/ Frozen(D) /\ ssrModule'[D] = ssrModule[D]
         /\ tasks'[m].imports[d] # NotImported =>
              tasks'[m].imports[d] = ObjV(ssrModule'[D])

C12_StaticImportFindsDependency == [][C12_Step]_vars

\* /a's body imported the frozen namespace of /b, and /b's body imported the
\* namespace of /a, its cycle ancestor, before /a's body ran
C12_Witness ==
  \E a, b \in InstTasks :
    /\ tasks[a].url = UrlA /\ tasks[b].url = UrlB
    /\ tasks[a].ranBody = 1 /\ tasks[b].ranBody = 1
    /\ UrlA \in Range(tasks[b].urlStack)
    /\ tasks[b].imports[VALID_ID_PREFIX \o UrlA] = ObjV(tasks[a].ns)
    /\ tasks[a].imports[UrlB] = ObjV(tasks[b].ns)
    /\ heap[tasks[b].ns].frozen

\* values a package may give its export k while the server runs
RawValues == {1, 3}

\* a package changes its export k (module.exports.k = n) after it was loaded;
\* the loader holds the same module object (require caches it)
RawMutate(o, n) ==
  /\ heap[o].kind = "raw"
  /\ heap[o].props["k"] # Data(IntV(n))
  /\ heap' = [heap EXCEPT ![o].props["k"] = Data(IntV(n))]
  /\ UNCHANGED << ssrModule, ssrTransformResult, pendingModules, tasks,
                  resolverVars, diskVars >>

InitLive == project = "live" /\ InitLoader

NextLive ==
  \/ \E u \in RequestUrls : RequestSeq(u)
  \/ \E t \in DOMAIN tasks : Step(t)
  \/ \E o \in {RawCjs, RawEsm} : \E n \in RawValues : RawMutate(o, n)

\* one request at a time on the "live" project, while the packages change
\* their exports
SpecLive == InitLive /\ [][NextLive]_vars

\* the instantiations whose namespace has accessors defined by ssrExportAll
Reexporting == {m \in InstTasks : tasks[m].ns # 0 /\ tasks[m].reexports # <<>>}

\* the source of the last call of ssrExportAll by m that defined key k, 0 = none
LastSource(m, k) ==
  LET idx == {i \in 1..Len(tasks[m].reexports) : tasks[m].reexports[i][2] = k}
  IN IF idx = {} THEN 0
     ELSE tasks[m].reexports[CHOOSE i \in idx : \A j \in idx : j <= i][1]

\* C13 as stated: every key that ssrExportAll found on a source reads on the
\* re-exporting namespace as it reads on that source now, and ssrExportAll
\* never defines 'default'.
C13_AsStated ==
  \A m \in Reexporting :
    /\ \A i \in 1..Len(tasks[m].reexports) :
         LET src == tasks[m].reexports[i][1]
             k == tasks[m].reexports[i][2]
         IN k # "default" /\ Get(heap, tasks[m].ns, k) = Get(heap, src, k)
    /\ heap[tasks[m].ns].props["default"].p # "get"

\* C13, amended: a key reads on the re-exporting namespace as it reads now on
\* the source of the last export-all call that defined it (the accessor is
\* configurable, a later export-all of a source with the same key replaces
\* it), also after the namespace is frozen and after the body assigned the
\* key; ssrExportAll never defines 'default'.
C13_ExportAllLive ==
  \A m \in Reexporting :
    /\ \A k \in Keys :
         LastSource(m, k) # 0 =>
           /\ k # "default"
           /\ heap[tasks[m].ns].props[k] = Getter(LastSource(m, k))
           /\ Get(heap, tasks[m].ns, k) = Get(heap, LastSource(m, k), k)
    /\ heap[tasks[m].ns].props["default"].p # "get"

\* /c is frozen, re-exports k of package p, and p changed k after /c's body ran
C13_Witness ==
  \E m \in Reexporting :
    /\ tasks[m].url = UrlC /\ Fulfilled(m) /\ heap[tasks[m].ns].frozen
    /\ LastSource(m, "k") # 0
    /\ heap[LastSource(m, "k")].target = RawCjs
    /\ Get(heap, tasks[m].ns, "k") = IntV(3)
    /\ Get(heap, tasks[m].ns, "default") = IntV(2)

\* the instantiations that threw at line 70: the pipeline, which they invoked,
\* gave no result for their url (they were rejected before their dependency
\* loop began; one that a dependency's failure reached has i > 0)
TransformFailed ==
  {i \in InstTasks : /\ tasks[i].transformed > 0
                     /\ tasks[i].state = "rejected"
                     /\ tasks[i].err = "transform"
                     /\ tasks[i].i = 0}

\* C14, in states: an instantiation of X whose pipeline gave no result has
\* started no load, has not run the body and has left the namespace it
\* installed unfrozen; the record's namespace is non-null; every call of
\* ssrLoadModule(X) that returned its promise is rejected with the error
\* naming X.
C14_Inv ==
  \A i \in TransformFailed :
    /\ \A c \in DOMAIN tasks : tasks[c].parent = i => tasks[c].fn = "inst"
    /\ StaticChildren(i) = {}
    /\ tasks[i].errUrl = tasks[i].url
    /\ tasks[i].ranBody = 0
    /\ tasks[i].ns # 0 /\ ~heap[tasks[i].ns].frozen
    /\ ssrModule[tasks[i].url] # 0
    /\ \A c \in LoadTasks :
         (tasks[c].pc = "return" /\ tasks[c].awaiting = i) =>
           /\ Rejected(c) /\ ErrOf(c) = "transform"
           /\ ErrUrlOf(c) = tasks[i].url /\ tasks[c].url = tasks[i].url

\* C14, in steps: when the awaited pipeline answers and leaves no result on
\* the record, the instantiation is rejected in that step with the error
\* naming its url, the step starts no call and runs no body, and the record's
\* namespace is the unfrozen one this instantiation installed.
C14_Step ==
  \A i \in InstTasks :
    ( /\ tasks[i].pc = "transform" /\ tasks'[i].pc # "transform"
      /\ ~ssrTransformResult'[tasks[i].url] ) =>
      /\ i \in TransformFailed'
      /\ DOMAIN tasks' = DOMAIN tasks
      /\ tasks'[i].ranBody = 0
      /\ ssrModule'[tasks[i].url] = tasks[i].ns
      /\ ~heap'[tasks[i].ns].frozen

C14_TransformFailure == []C14_Inv /\ [][C14_Step]_vars

\* a request for /b rejected because the pipeline gave no result for /b
C14_Witness ==
  \E r \in TopTasks : \E i \in TransformFailed :
    /\ tasks[r].url = UrlB /\ tasks[r].pc = "return" /\ tasks[r].awaiting = i
    /\ Rejected(r) /\ ErrOf(r) = "transform" /\ ErrUrlOf(r) = UrlB
    /\ ssrModule[UrlB] = tasks[i].ns /\ ~heap[ssrModule[UrlB]].frozen

\* the instantiations whose body raised (lines 133-142 rethrew)
EvalFailed ==
  {i \in InstTasks : tasks[i].state = "rejected" /\ tasks[i].ranBody > 0}

\* the instantiations of the url of i that were started after i and have
\* passed line 52: the retries (a later one is started only after the pending
\* entry of the earlier one was removed)
Retries(i) ==
  {j \in InstTasks : /\ j > i /\ tasks[j].url = tasks[i].url
                     /\ tasks[j].pc # "ensure"}

\* the first instantiation of the url of i started after i
NextRetry(i) ==
  {j \in Retries(i) :
     ~\E k \in InstTasks : i < k /\ k < j /\ tasks[k].url = tasks[i].url}

\* C15 as stated: the instantiation that a load of X starts after the body of
\* X raised installs a new namespace and executes the body of X again: once it
\* has settled, it has run the body.
C15_AsStated ==
  \A i \in EvalFailed : \A j \in NextRetry(i) :
    /\ tasks[j].ns # 0 /\ tasks[j].ns # tasks[i].ns
    /\ Settled(j) => tasks[j].ranBody >= 1

\* C15, amended, in states: the namespace of an instantiation whose body raised
\* stays unfrozen and the calls that returned its promise are rejected with
\* its error; the next instantiation of X installs a new namespace object;
\* needing no second answer of the pipeline, it is fulfilled only by running the
\* body, and is rejected without running it only by the failure of the load of
\* one of X's internal dependencies.
C15_Inv ==
  \A i \in EvalFailed :
    /\ tasks[i].ns # 0 /\ ~heap[tasks[i].ns].frozen
    /\ tasks[i].err \in {"eval", "resolve"} /\ tasks[i].errUrl = tasks[i].url
    /\ \A c \in LoadTasks :
         (tasks[c].pc = "return" /\ tasks[c].awaiting = i) =>
           Rejected(c) /\ ErrOf(c) = tasks[i].err /\ ErrUrlOf(c) = tasks[i].url
    /\ \A j \in NextRetry(i) :
         /\ tasks[j].ns # 0 /\ tasks[j].ns # tasks[i].ns
         /\ tasks[j].transformed = 0
         /\ tasks[j].state = "fulfilled" =>
              /\ tasks[j].ranBody = 1
              /\ tasks[j].value = tasks[j].ns /\ heap[tasks[j].ns].frozen
         /\ (tasks[j].state = "rejected" /\ tasks[j].ranBody = 0) =>
              \E c \in StaticChildren(j) :
                /\ Rejected(c)
                /\ tasks[j].err = ErrOf(c) /\ tasks[j].errUrl = ErrUrlOf(c)
    /\ \A j \in Retries(i) :
         tasks[j].ns = 0 => Fulfilled(j) /\ heap[tasks[j].value].frozen

\* C15, amended, in steps: a module that is complete stays frozen on the record
\* and its body is not run again, whatever is retried.
C15_Step ==
  \A u \in Urls :
    Frozen(u) =>
      /\ ssrModule'[u] = ssrModule[u] /\ heap'[ssrModule[u]].frozen
      /\ BodyRunsOf(u)' = BodyRunsOf(u)

C15_RetryAfterFailure == []C15_Inv /\ [][C15_Step]_vars

\* the body of /a raised after /b had completed; a later load of /a ran the
\* body of /a again on a new namespace, and /b was not run again
C15_Witness ==
  \E i \in EvalFailed : \E j \in NextRetry(i) : \E b \in InstTasks :
    /\ tasks[i].url = UrlA
    /\ Fulfilled(j) /\ tasks[j].ranBody = 1 /\ ssrModule[UrlA] = tasks[j].ns
    /\ tasks[b].url = UrlB /\ tasks[b].parent \in StaticChildren(j)
    /\ Fulfilled(b) /\ tasks[b].ranBody = 0
    /\ BodyRunsOf(UrlB) = 1 /\ Frozen(UrlB)

\* the triple of a call of resolve
TripleOf(c) == <<c.id, c.importer, c.root>>

\* C16 as stated: a call of resolve whose search fails returns the failure and
\* leaves the cache as it is; and a call for a triple whose search failed
\* before, and which has not been resolved since, invokes the search again.
C16_AsStated_Step ==
  lastResolve'.n # lastResolve.n =>
    LET c == lastResolve'
    IN /\ IsNull(c.path) => c.searched /\ resolveCache' = resolveCache
       /\ (TripleOf(c) \in failedSearches /\ TripleOf(c) \notin DOMAIN firstPath)
            => c.searched

C16_AsStated == [][C16_AsStated_Step]_vars

\* instantiation i is suspended at line 80 on a call of ssrLoadModule that
\* returned the pending promise of instantiation j
AwaitsPending(i, j) ==
  /\ tasks[i].state = "pending" /\ tasks[i].pc = "dep"
  /\ tasks[tasks[i].awaiting].pc = "return"
  /\ tasks[tasks[i].awaiting].awaiting = j
  /\ tasks[j].state = "pending"

\* C17 as stated (its safety half): with requests for /a and for /b in flight,
\* no state is reached in which the instantiation of /a awaits the pending
\* handle of /b while the instantiation of /b awaits the pending handle of /a.
C17_AsStated ==
  ~ \E a, b \in InstTasks :
      /\ tasks[a].url = UrlA /\ tasks[b].url = UrlB
      /\ tasks[a].urlStack = <<>> /\ tasks[b].urlStack = <<>>
      /\ AwaitsPending(a, b) /\ AwaitsPending(b, a)

\* the urls of the internal dependencies of u
DepUrls(u) ==
  {unwrapId(InternalDeps(u)[k]) : k \in 1..Len(InternalDeps(u))}

RECURSIVE Reach(_)
\* the urls reachable from those of S through internal dependencies
Reach(S) ==
  LET M == S \cup UNION {DepUrls(u) : u \in S}
  IN IF M = S THEN S ELSE Reach(M)

\* the record of u is Complete: its namespace is frozen and is the one an
\* instantiation returned after running the body
Complete(u) ==
  /\ Frozen(u)
  /\ \E i \in InstTasks :
       /\ tasks[i].url = u /\ tasks[i].ns = ssrModule[u]
       /\ tasks[i].state = "fulfilled" /\ tasks[i].ranBody = 1

\* C18 as stated: when a request for X is fulfilled, every module reachable
\* from X through internal dependencies, X included, is Complete.
C18_AsStated ==
  \A r \in TopTasks :
    Fulfilled(r) => \A u \in Reach({tasks[r].url}) : Complete(u)

\* the instantiation that completed the record of u
CompletedBy(u) ==
  {i \in InstTasks : /\ tasks[i].url = u /\ tasks[i].ns = ssrModule[u]
                     /\ tasks[i].state = "fulfilled" /\ tasks[i].ranBody = 1}

\* C19 as stated: for every Complete module M and every internal dependency D
\* of M, what M's body got from its import of D is the object that is now the
\* namespace of D's record.
C19_AsStated ==
  \A u \in Urls :
    Complete(u) =>
      \A m \in CompletedBy(u) : \A k \in 1..Len(InternalDeps(u)) :
        tasks[m].imports[InternalDeps(u)[k]]
          = ObjV(ssrModule[unwrapId(InternalDeps(u)[k])])

\* C20 as stated: a call of resolve is answered from the cache only if the
\* same triple (id, importer, root) was resolved before; it never returns a
\* path that was cached for another triple.
C20_AsStated_Step ==
  lastResolve'.n # lastResolve.n =>
    LET c == lastResolve'
    IN ~c.searched => TripleOf(c) \in DOMAIN firstPath

C20_AsStated == [][C20_AsStated_Step]_vars

====
